---- MODULE Spec2Model ----
(***************************************************************************)
(* Model of the package-creation command (command.ts: KgCliCommand and     *)
(* FileSystem) and of the blueprint resolver (package-blueprint.ts).       *)
(* File and directory names are sequences of characters, paths are         *)
(* sequences of names (POSIX, the root is the empty path).                 *)
(***************************************************************************)
EXTENDS Integers, Sequences, FiniteSets, TLC

VARIABLES fs, call, result, walk, snap, cmd

vars == <<fs, call, result, walk, snap, cmd>>

(* ---------------------------------------------------------------------- *)
(* Bounds and the finite universe of names.                                *)
(* ---------------------------------------------------------------------- *)
MaxFiles == 3
MaxSearchDepth == 1
MaxFilterEntries == 3
MaxNameLen == 5
MaxPieces == 3

nA == <<"a">>
nB == <<"b">>
nAB == <<"a", ".", "b">>
nDotB == <<".", "b">>

Names == {nA, nB, nAB}

\* Order in which readdirSync lists the children of a directory.
NameOrder == <<nDotB, nA, nAB, nB>>

CandidateFiles ==
    { <<nAB>>, <<nB>>, <<nA, nA>>, <<nA, nAB>>, <<nAB, nA>>, <<nA, nB, nA>>, <<nA, nAB, nB>> }

FileNameEntries == {nA, nAB}
DirectoryEntries == {nA, nAB}
ExtensionEntries == {nA, nB}

(* ---------------------------------------------------------------------- *)
(* Paths.                                                                  *)
(* ---------------------------------------------------------------------- *)
RootPath == <<>>

IsPrefix(p, q) == Len(p) <= Len(q) /\ SubSeq(q, 1, Len(p)) = p

IsProperPrefix(p, q) == Len(p) < Len(q) /\ SubSeq(q, 1, Len(p)) = p

\* path.dirname: the parent directory; the root is its own parent.
directoryOfFile(p) == IF p = RootPath THEN RootPath ELSE SubSeq(p, 1, Len(p) - 1)

IsRootPathNever(p) == FALSE

\* path.parse(p).root === p
IsRootPath(p) == p = RootPath

BaseName(p) == IF p = RootPath THEN <<>> ELSE p[Len(p)]

DotPositions(n) == {i \in 1..Len(n) : n[i] = "."}

LastDot(n) == CHOOSE i \in DotPositions(n) : \A j \in DotPositions(n) : j <= i

\* path.parse(p).name: the last segment without its extension. A segment
\* without a dot, or whose only dot is its first character, has no extension.
ParsedName(p) ==
    LET n == BaseName(p)
    IN IF DotPositions(n) = {} \/ LastDot(n) = 1 \/ n = <<".", ".">>
       THEN n
       ELSE SubSeq(n, 1, LastDot(n) - 1)

\* lChildItemName.split('.').pop(): the part after the last dot, the whole
\* name when there is no dot.
FileExtension(n) ==
    IF DotPositions(n) = {} THEN n ELSE SubSeq(n, LastDot(n) + 1, Len(n))

(* ---------------------------------------------------------------------- *)
(* File system: a function from the existing paths to their node, a       *)
(* directory or a regular file with its content.                           *)
(* ---------------------------------------------------------------------- *)
DirNode == [kind |-> "dir", content |-> <<>>]

FileNode(c) == [kind |-> "file", content |-> c]

IsDirectory(f, p) == p \in DOMAIN f /\ f[p].kind = "dir"

IsFile(f, p) == p \in DOMAIN f /\ f[p].kind = "file"

ProperPrefixes(p) == {SubSeq(p, 1, k) : k \in 0..(Len(p) - 1)}

PrefixFree(S) == \A p \in S, q \in S : ~IsProperPrefix(p, q)

\* The tree that holds exactly the files of S (each file's content is its
\* own path, so that contents are pairwise distinct) and the directories
\* leading to them.
TreeOf(S) ==
    LET dirs == {RootPath} \cup UNION {ProperPrefixes(p) : p \in S}
    IN [p \in S \cup dirs |-> IF p \in S THEN FileNode(p) ELSE DirNode]

\* readdirSync
ReadDir(f, dir) == SelectSeq(NameOrder, LAMBDA n : Append(dir, n) \in DOMAIN f)

(* ---------------------------------------------------------------------- *)
(* FileSystem.findFiles                                                    *)
(* ---------------------------------------------------------------------- *)
DefaultDepth == 999

EmptyFilter == [fileNames |-> {}, directories |-> {}, extensions |-> {}]

DefaultOptions ==
    [depth |-> DefaultDepth, include |-> EmptyFilter, exclude |-> EmptyFilter, direction |-> "forward"]

NextSearchOptions(o) == [o EXCEPT !.depth = o.depth - 1]

DepthExhaustedOffByOne(o) == o.depth < 0

DepthExhausted(o) == (o.depth - 1) < 0

DirectoryIncludedEmptyMatchesNothing(o, name) == name \in o.include.directories

DirectoryIncluded(o, name) ==
    ~(Cardinality(o.include.directories) > 0 /\ name \notin o.include.directories)

DirectoryNotExcluded(o, name) ==
    ~(Cardinality(o.exclude.directories) > 0 /\ name \in o.exclude.directories)

FileAccepted(o, n) ==
    /\ ~(Cardinality(o.include.fileNames) > 0 /\ n \notin o.include.fileNames)
    /\ ~(Cardinality(o.include.extensions) > 0 /\ FileExtension(n) \notin o.include.extensions)
    /\ ~(Cardinality(o.exclude.fileNames) > 0 /\ n \in o.exclude.fileNames)
    /\ ~(Cardinality(o.exclude.extensions) > 0 /\ FileExtension(n) \in o.exclude.extensions)

\* Whether the loop over the children descends into child directory item.
DescendInto(o, item) ==
    /\ o.direction = "forward"
    /\ ~DepthExhausted(o)
    /\ DirectoryIncluded(o, ParsedName(item))
    /\ DirectoryNotExcluded(o, ParsedName(item))

\* Whether the reverse search continues in the parent of dir.
GoBackwards(o, dir) ==
    /\ o.direction = "reverse"
    /\ ~DepthExhausted(o)
    /\ DirectoryIncluded(o, ParsedName(directoryOfFile(dir)))
    /\ DirectoryNotExcluded(o, ParsedName(directoryOfFile(dir)))
    /\ ~IsRootPath(directoryOfFile(dir))

RECURSIVE findFiles(_, _, _)
RECURSIVE ScanChildren(_, _, _, _)

ScanChildren(f, dir, o, listing) ==
    IF listing = <<>>
    THEN <<>>
    ELSE LET item == Append(dir, Head(listing))
             part == IF IsDirectory(f, item)
                     THEN IF DescendInto(o, item)
                          THEN findFiles(f, item, NextSearchOptions(o))
                          ELSE <<>>
                     ELSE IF FileAccepted(o, Head(listing)) THEN <<item>> ELSE <<>>
         IN part \o ScanChildren(f, dir, o, Tail(listing))

findFiles(f, dir, o) ==
    ScanChildren(f, dir, o, ReadDir(f, dir))
        \o (IF GoBackwards(o, dir)
            THEN findFiles(f, directoryOfFile(dir), NextSearchOptions(o))
            ELSE <<>>)

(* ---------------------------------------------------------------------- *)
(* Path strings, as copyDirectory handles them.                            *)
(* ---------------------------------------------------------------------- *)
RECURSIVE JoinSegments(_)
JoinSegments(p) == IF p = <<>> THEN <<>> ELSE <<"/">> \o Head(p) \o JoinSegments(Tail(p))

\* The string of an absolute path: "/" for the root, else "/seg/seg...".
PathString(p) == IF p = RootPath THEN <<"/">> ELSE JoinSegments(p)

Occurrences(str, pat) ==
    {i \in 1..(Len(str) - Len(pat) + 1) : SubSeq(str, i, i + Len(pat) - 1) = pat}

\* String.prototype.replace(pat, '') with a string pattern: the first
\* occurrence is removed.
RemoveFirst(str, pat) ==
    IF Occurrences(str, pat) = {}
    THEN str
    ELSE LET i == CHOOSE k \in Occurrences(str, pat) : \A j \in Occurrences(str, pat) : k <= j
         IN SubSeq(str, 1, i - 1) \o SubSeq(str, i + Len(pat), Len(str))

\* str.startsWith(ch) ? str.substring(1) : str
TrimLeading(str, ch) == IF str # <<>> /\ Head(str) = ch THEN Tail(str) ELSE str

RECURSIVE SplitSegments(_, _)
SplitSegments(str, cur) ==
    IF str = <<>>
    THEN <<cur>>
    ELSE IF Head(str) = "/"
         THEN <<cur>> \o SplitSegments(Tail(str), <<>>)
         ELSE SplitSegments(Tail(str), Append(cur, Head(str)))

RECURSIVE ResolveSegments(_, _)
ResolveSegments(base, segs) ==
    IF segs = <<>>
    THEN base
    ELSE LET seg == Head(segs)
         IN IF seg = <<>> \/ seg = <<".">>
            THEN ResolveSegments(base, Tail(segs))
            ELSE IF seg = <<".", ".">>
                 THEN ResolveSegments(directoryOfFile(base), Tail(segs))
                 ELSE ResolveSegments(Append(base, seg), Tail(segs))

\* path.resolve(base, str) for an absolute base.
pathToAbsolute(base, str) ==
    IF str # <<>> /\ Head(str) = "/"
    THEN ResolveSegments(RootPath, SplitSegments(str, <<>>))
    ELSE ResolveSegments(base, SplitSegments(str, <<>>))

(* ---------------------------------------------------------------------- *)
(* FileSystem.copyDirectory                                                *)
(* ---------------------------------------------------------------------- *)
AncestorsAndSelf(p) == {SubSeq(p, 1, k) : k \in 0..Len(p)}

\* mkdirSync(dir, {recursive: true}) throws when a segment is a file.
CanCreateDirectory(f, dir) == \A q \in AncestorsAndSelf(dir) : ~IsFile(f, q)

createDirectory(f, dir) ==
    [q \in DOMAIN f \cup AncestorsAndSelf(dir) |-> IF q \in DOMAIN f THEN f[q] ELSE DirNode]

\* copyFileSync(src, dst) throws when dst is a directory.
CanCopyFile(f, dst) == ~IsDirectory(f, dst)

copyFile(f, src, dst) == [q \in DOMAIN f \cup {dst} |-> IF q = dst THEN f[src] ELSE f[q]]

RelativeItemPath(sourceFile, sourcePath) ==
    TrimLeading(TrimLeading(RemoveFirst(PathString(sourceFile), PathString(sourcePath)), "\\"), "/")

DestinationItem(sourceFile, sourcePath, destinationPath) ==
    pathToAbsolute(destinationPath, RelativeItemPath(sourceFile, sourcePath))

CopiesItemAlways(f, item, override) == TRUE

CopiesItem(f, item, override) == ~(item \in DOMAIN f) \/ override

\* The loop over the source file list; it ends at the first call that throws.
RECURSIVE CopyLoop(_, _, _, _, _)
CopyLoop(f, list, source, destination, override) ==
    IF list = <<>>
    THEN [fs |-> f, error |-> "none"]
    ELSE LET item == DestinationItem(Head(list), source, destination)
         IN IF CopiesItem(f, item, override)
            THEN IF ~CanCreateDirectory(f, directoryOfFile(item))
                 THEN [fs |-> f, error |-> "mkdir"]
                 ELSE IF ~CanCopyFile(createDirectory(f, directoryOfFile(item)), item)
                      THEN [fs |-> createDirectory(f, directoryOfFile(item)), error |-> "copyFile"]
                      ELSE CopyLoop(copyFile(createDirectory(f, directoryOfFile(item)), Head(list), item),
                                    Tail(list), source, destination, override)
            ELSE CopyLoop(f, Tail(list), source, destination, override)

\* findFiles throws when the source is not a directory.
copyDirectory(f, source, destination, override, o) ==
    IF ~IsDirectory(f, source)
    THEN [fs |-> f, error |-> "notADirectory"]
    ELSE CopyLoop(f, findFiles(f, source, o), source, destination, override)

(* ---------------------------------------------------------------------- *)
(* Search specification: one findFiles call on a tree.                     *)
(* ---------------------------------------------------------------------- *)
Filters ==
    [fileNames : SUBSET FileNameEntries,
     directories : SUBSET DirectoryEntries,
     extensions : SUBSET ExtensionEntries]

FilterSize(flt) ==
    Cardinality(flt.fileNames) + Cardinality(flt.directories) + Cardinality(flt.extensions)

SearchDepths == (0..MaxSearchDepth) \cup {DefaultDepth}

SearchOptions ==
    {o \in [depth : SearchDepths, include : Filters, exclude : Filters,
            direction : {"forward", "reverse"}] :
        FilterSize(o.include) + FilterSize(o.exclude) <= MaxFilterEntries}

SingleEntryFilters ==
    {EmptyFilter}
        \cup {[EmptyFilter EXCEPT !.fileNames = {n}] : n \in FileNameEntries}
        \cup {[EmptyFilter EXCEPT !.directories = {n}] : n \in DirectoryEntries}
        \cup {[EmptyFilter EXCEPT !.extensions = {n}] : n \in ExtensionEntries}

\* The options of the reverse searches explored: at most one entry in the
\* include sets and at most one in the exclude sets.
ReverseOptions ==
    [depth : SearchDepths, include : SingleEntryFilters, exclude : SingleEntryFilters,
     direction : {"reverse"}]

Trees == {TreeOf(S) : S \in {T \in SUBSET CandidateFiles : Cardinality(T) <= MaxFiles /\ PrefixFree(T)}}

NoCall == [op |-> "none"]

SeqToSet(q) == {q[i] : i \in 1..Len(q)}

NoWalk == [pc |-> "idle"]

NoSnap == [taken |-> FALSE]

NoCommand == [pc |-> "none"]

InitFind ==
    /\ fs \in Trees
    /\ call = NoCall
    /\ result = <<>>
    /\ walk = NoWalk
    /\ snap = NoSnap
    /\ cmd = NoCommand

FindFilesCall ==
    /\ call = NoCall
    /\ \E start \in DOMAIN fs, o \in SearchOptions :
        /\ IsDirectory(fs, start)
        /\ call' = [op |-> "findFiles", start |-> start, options |-> o]
        /\ result' = findFiles(fs, start, o)
        /\ UNCHANGED <<fs, walk, snap, cmd>>

NextFind == FindFilesCall

SpecFind == InitFind /\ [][NextFind]_vars

(* ---------------------------------------------------------------------- *)
(* Reverse search, one findFiles invocation per step: the invocation on    *)
(* walk.dir lists the files of that directory and then either returns or   *)
(* calls findFiles on the parent directory.                                *)
(* ---------------------------------------------------------------------- *)
InitReverse == InitFind

ReverseCall ==
    /\ call = NoCall
    /\ \E start \in DOMAIN fs, o \in ReverseOptions :
        /\ IsDirectory(fs, start)
        /\ call' = [op |-> "findFiles", start |-> start, options |-> o]
        /\ walk' = [pc |-> "invoke", dir |-> start, options |-> o, hops |-> 0, parents |-> <<>>]
        /\ result' = <<>>
        /\ UNCHANGED <<fs, snap, cmd>>

ReverseInvocation ==
    /\ walk.pc = "invoke"
    /\ result' = result \o ScanChildren(fs, walk.dir, walk.options, ReadDir(fs, walk.dir))
    /\ IF GoBackwards(walk.options, walk.dir)
       THEN walk' = [walk EXCEPT !.dir = directoryOfFile(walk.dir),
                                 !.options = NextSearchOptions(walk.options),
                                 !.hops = walk.hops + 1,
                                 !.parents = Append(walk.parents, directoryOfFile(walk.dir))]
       ELSE walk' = [walk EXCEPT !.pc = "done"]
    /\ UNCHANGED <<fs, call, snap, cmd>>

NextReverse == ReverseCall \/ ReverseInvocation

SpecReverse == InitReverse /\ [][NextReverse]_vars /\ WF_vars(ReverseInvocation)

\* The stepwise search returns what the recursive definition returns.
ReverseWalkAgreesWithFindFiles ==
    (walk.pc = "done") => result = findFiles(fs, call.start, call.options)

\* C4: a reverse findFiles started at D with depth N terminates; it visits
\* at most N parent directories and never the filesystem root as a parent,
\* also when D is the root itself.
C4_ReverseWalkStopsAtDepthOrRoot ==
    /\ [](walk.pc # "idle" =>
            /\ walk.hops <= call.options.depth
            /\ Len(walk.parents) = walk.hops
            /\ RootPath \notin SeqToSet(walk.parents))
    /\ ((walk.pc = "invoke") ~> (walk.pc = "done"))

\* A walk that the root stopped (depth left), and that listed a parent.
C4_Witness ==
    /\ walk.pc = "done"
    /\ walk.hops = 1
    /\ walk.options.depth > 0
    /\ directoryOfFile(walk.dir) = RootPath
    /\ Len(result) >= 2

C4_WitnessStartAtRoot ==
    /\ walk.pc = "done"
    /\ call.start = RootPath
    /\ walk.hops = 0
    /\ result # <<>>

(* ---------------------------------------------------------------------- *)
(* Copy specification: copyDirectory, then the same call once more.        *)
(* ---------------------------------------------------------------------- *)
DestinationCandidates == {RootPath, <<nA>>, <<nB>>, <<nAB>>, <<nA, nA>>, <<nA, nB>>}

CopyOptions ==
    {o \in [depth : SearchDepths, include : SingleEntryFilters, exclude : SingleEntryFilters,
            direction : {"forward", "reverse"}] :
        o.include = EmptyFilter \/ o.exclude = EmptyFilter}

InitCopy == InitFind

CopyDirectoryCall ==
    /\ call = NoCall
    /\ \E source \in DOMAIN fs, destination \in DestinationCandidates,
          override \in BOOLEAN, o \in CopyOptions :
        LET outcome == copyDirectory(fs, source, destination, override, o)
        IN /\ call' = [op |-> "copyDirectory", source |-> source, destination |-> destination,
                       override |-> override, options |-> o, runs |-> 1, error |-> outcome.error]
           /\ fs' = outcome.fs
           /\ snap' = [taken |-> TRUE, before |-> fs, afterFirst |-> outcome.fs]
           /\ UNCHANGED <<result, walk, cmd>>

CopyDirectoryAgain ==
    /\ call.op = "copyDirectory"
    /\ call.runs = 1
    /\ LET outcome == copyDirectory(fs, call.source, call.destination, call.override, call.options)
       IN /\ call' = [call EXCEPT !.runs = 2, !.error = outcome.error]
          /\ fs' = outcome.fs
          /\ UNCHANGED <<result, walk, snap, cmd>>

NextCopy == CopyDirectoryCall \/ CopyDirectoryAgain

SpecCopy == InitCopy /\ [][NextCopy]_vars

\* Every path of the tree is made of listed names, and every parent of an
\* existing path is a directory.
TreeWellFormed ==
    \A p \in DOMAIN fs :
        /\ \A i \in 1..Len(p) : p[i] \in SeqToSet(NameOrder)
        /\ p # RootPath => IsDirectory(fs, directoryOfFile(p))

FilesOf(f) == {p \in DOMAIN f : IsFile(f, p)}

IsSecondRunWithoutOverwrite ==
    call.op = "copyDirectory" /\ call.runs = 2 /\ ~call.override

\* C5 as stated: with overwrite = false a second copyDirectory leaves the
\* tree the first one left, and no file that existed before the first call
\* has changed, for every source, destination and options.
C5_CopyTwiceEqualsCopyOnce ==
    IsSecondRunWithoutOverwrite =>
        /\ fs = snap.afterFirst
        /\ \A p \in FilesOf(snap.before) : IsFile(fs, p) /\ fs[p] = snap.before[p]

RootsNotNested ==
    /\ ~IsProperPrefix(call.source, call.destination)
    /\ ~IsProperPrefix(call.destination, call.source)

\* C5 amended: the same, provided neither of the source and destination
\* directories lies inside the other; pre-existing files keep their content
\* in every case.
C5_CopyTwiceEqualsCopyOnceUnlessNested ==
    IsSecondRunWithoutOverwrite =>
        /\ RootsNotNested => fs = snap.afterFirst
        /\ \A p \in FilesOf(snap.before) : IsFile(fs, p) /\ fs[p] = snap.before[p]

\* A second run after a first one that created a file and skipped an
\* existing one.
C5_Witness ==
    /\ IsSecondRunWithoutOverwrite
    /\ RootsNotNested
    /\ call.source # call.destination
    /\ FilesOf(snap.before) # FilesOf(snap.afterFirst)
    /\ \E p \in FilesOf(snap.before) :
          /\ IsProperPrefix(call.destination, p)
          /\ \E q \in FilesOf(snap.before) :
                /\ q # p
                /\ IsProperPrefix(call.source, q)
                /\ DestinationItem(q, call.source, call.destination) = p

(* ---------------------------------------------------------------------- *)
(* The package name check of KgCliCommand.run:                             *)
(* /^(?:@[a-z0-9-*~][a-z0-9-*._~]*\/)?[a-z0-9-~][a-z0-9-._~]*$/            *)
(* ---------------------------------------------------------------------- *)
LowerCaseLetters ==
    {"a", "b", "c", "d", "e", "f", "g", "h", "i", "j", "k", "l", "m",
     "n", "o", "p", "q", "r", "s", "t", "u", "v", "w", "x", "y", "z"}

Digits == {"0", "1", "2", "3", "4", "5", "6", "7", "8", "9"}

\* [a-z0-9-*~]
ScopeFirstChars == LowerCaseLetters \cup Digits \cup {"-", "*", "~"}

ScopeRestCharsWithoutStar == LowerCaseLetters \cup Digits \cup {"-", ".", "_", "~"}

\* [a-z0-9-*._~]
ScopeRestChars == LowerCaseLetters \cup Digits \cup {"-", "*", ".", "_", "~"}

\* [a-z0-9-~]
NameFirstChars == LowerCaseLetters \cup Digits \cup {"-", "~"}

\* [a-z0-9-._~]
NameRestChars == LowerCaseLetters \cup Digits \cup {"-", ".", "_", "~"}

\* One step of the matcher: the position in the pattern after reading ch.
MatchStep(pos, ch) ==
    CASE pos = "start" ->
            IF ch = "@" THEN "scopeFirst"
            ELSE IF ch \in NameFirstChars THEN "nameRest" ELSE "fail"
      [] pos = "scopeFirst" ->
            IF ch \in ScopeFirstChars THEN "scopeRest" ELSE "fail"
      [] pos = "scopeRest" ->
            IF ch \in ScopeRestChars THEN "scopeRest"
            ELSE IF ch = "/" THEN "nameFirst" ELSE "fail"
      [] pos = "nameFirst" ->
            IF ch \in NameFirstChars THEN "nameRest" ELSE "fail"
      [] pos = "nameRest" ->
            IF ch \in NameRestChars THEN "nameRest" ELSE "fail"
      [] OTHER -> "fail"

RECURSIVE MatchFrom(_, _)
MatchFrom(pos, str) ==
    IF str = <<>> THEN pos ELSE MatchFrom(MatchStep(pos, Head(str)), Tail(str))

\* lPackageNameValidation.test(str)
PackageNameValid(str) == MatchFrom("start", str) = "nameRest"

(* ---------------------------------------------------------------------- *)
(* Name specification: the check applied to every short string.            *)
(* ---------------------------------------------------------------------- *)
NameAlphabet == {"a", "~", ".", "_", "*", "@", "/", "A"}

NameInputs == UNION {[1..k -> NameAlphabet] : k \in 0..MaxNameLen}

InitName ==
    /\ fs = TreeOf({})
    /\ call = NoCall
    /\ result = <<>>
    /\ walk = NoWalk
    /\ snap = NoSnap
    /\ cmd \in {[pc |-> "validate", packageName |-> n] : n \in NameInputs}

\* Lines 66-69: the name is tested, and the command throws on a mismatch.
ValidatePackageName ==
    /\ cmd.pc = "validate"
    /\ cmd' = [pc |-> "validated", packageName |-> cmd.packageName,
               error |-> IF PackageNameValid(cmd.packageName) THEN "none" ELSE "InvalidName"]
    /\ UNCHANGED <<fs, call, result, walk, snap>>

NextName == ValidatePackageName

SpecName == InitName /\ [][NextName]_vars

AllIn(str, chars) == \A i \in 1..Len(str) : str[i] \in chars

\* name: [a-z0-9-~][a-z0-9-._~]*
IsBareName(str) ==
    /\ Len(str) >= 1
    /\ str[1] \in LowerCaseLetters \cup Digits \cup {"-", "~"}
    /\ AllIn(Tail(str), LowerCaseLetters \cup Digits \cup {"-", ".", "_", "~"})

\* scope as the claim has it: like a name, but the first character may be '*'.
IsScopeStarFirstOnly(str) ==
    /\ Len(str) >= 1
    /\ str[1] \in LowerCaseLetters \cup Digits \cup {"-", "~", "*"}
    /\ AllIn(Tail(str), LowerCaseLetters \cup Digits \cup {"-", ".", "_", "~"})

\* scope with '*' allowed at every position.
IsScopeStarAnywhere(str) ==
    /\ Len(str) >= 1
    /\ str[1] \in LowerCaseLetters \cup Digits \cup {"-", "~", "*"}
    /\ AllIn(Tail(str), LowerCaseLetters \cup Digits \cup {"-", ".", "_", "~", "*"})

\* (@scope/)?name
HasForm(str, IsScope(_)) ==
    \/ IsBareName(str)
    \/ /\ Len(str) >= 1
       /\ str[1] = "@"
       /\ \E k \in 2..Len(str) :
            /\ str[k] = "/"
            /\ IsScope(SubSeq(str, 2, k - 1))
            /\ IsBareName(SubSeq(str, k + 1, Len(str)))

NameChecked == cmd.pc = "validated"

\* C9 as stated: a string is accepted iff it is (@scope/)?name where the
\* scope may have '*' as its first character only.
C9_AcceptsExactlyTheStatedGrammar ==
    NameChecked => ((cmd.error = "none") <=> HasForm(cmd.packageName, IsScopeStarFirstOnly))

\* C9 amended: a string is accepted iff it is (@scope/)?name where the
\* scope may have '*' at any position; any other string gets the
\* invalid-name error.
C9_AcceptsGrammarWithStarInScope ==
    NameChecked =>
        /\ (cmd.error = "none") <=> HasForm(cmd.packageName, IsScopeStarAnywhere)
        /\ cmd.error \in {"none", "InvalidName"}

\* An accepted name whose scope has '*' after its first character.
C9_Witness ==
    /\ NameChecked
    /\ cmd.error = "none"
    /\ cmd.packageName = <<"@", "a", "*", "/">> \o <<"a">>

(* ---------------------------------------------------------------------- *)
(* KgCliCommand.run and createBlueprint: the create command, one step per  *)
(* statement group. The target directory is kept as its stage: "absent",   *)
(* "present" (occupied before the command), "empty", "partial",            *)
(* "expanded", "rewritten".                                                *)
(* ---------------------------------------------------------------------- *)
UpperCase ==
    <<"A", "B", "C", "D", "E", "F", "G", "H", "I", "J", "K", "L", "M",
      "N", "O", "P", "Q", "R", "S", "T", "U", "V", "W", "X", "Y", "Z">>

LowerCase ==
    <<"a", "b", "c", "d", "e", "f", "g", "h", "i", "j", "k", "l", "m",
      "n", "o", "p", "q", "r", "s", "t", "u", "v", "w", "x", "y", "z">>

ToLowerChar(ch) ==
    IF \E i \in 1..Len(UpperCase) : UpperCase[i] = ch
    THEN LowerCase[CHOOSE i \in 1..Len(UpperCase) : UpperCase[i] = ch]
    ELSE ch

\* String.prototype.toLowerCase
toLowerCase(str) == [i \in 1..Len(str) |-> ToLowerChar(str[i])]

\* readBlueprintList: every blueprint a package declares is stored under
\* its declared name; a later package replaces an earlier entry.
RECURSIVE readBlueprintList(_)
readBlueprintList(packages) ==
    IF packages = <<>>
    THEN <<>>
    ELSE LET lPackage == packages[Len(packages)]
             before == readBlueprintList(SubSeq(packages, 1, Len(packages) - 1))
         IN IF ~lPackage.hasBlueprints
            THEN before
            ELSE [n \in DOMAIN before \cup lPackage.blueprints |->
                    IF n \in lPackage.blueprints
                    THEN [packageInformation |-> lPackage.packageName, declaredName |-> n]
                    ELSE before[n]]

\* /^[a-z0-9-]$/
BlueprintPromptValid(str) ==
    Len(str) = 1 /\ str[1] \in LowerCaseLetters \cup Digits \cup {"-"}

StepAfterValidateFirst(step) ==
    CASE step = "start" -> "validateNames"
      [] step = "validateNames" -> "resolveBlueprint"
      [] step = "resolveBlueprint" -> "checkTargetFree"
      [] step = "checkTargetFree" -> "createResolver"
      [] step = "createResolver" -> "createTargetDir"
      [] step = "createTargetDir" -> "expandArchive"
      [] step = "expandArchive" -> "runResolverHook"
      [] step = "runResolverHook" -> "registerInProject"
      [] step = "registerInProject" -> "installDependencies"
      [] OTHER -> "done"

StepAfterCreateBeforeCheck(step) ==
    CASE step = "start" -> "resolveBlueprint"
      [] step = "resolveBlueprint" -> "validateNames"
      [] step = "validateNames" -> "createResolver"
      [] step = "createResolver" -> "createTargetDir"
      [] step = "createTargetDir" -> "checkTargetFree"
      [] step = "checkTargetFree" -> "expandArchive"
      [] step = "expandArchive" -> "runResolverHook"
      [] step = "runResolverHook" -> "registerInProject"
      [] step = "registerInProject" -> "installDependencies"
      [] OTHER -> "done"

\* The order of the statements of run and createBlueprint.
StepAfter(step) ==
    CASE step = "start" -> "resolveBlueprint"
      [] step = "resolveBlueprint" -> "validateNames"
      [] step = "validateNames" -> "checkTargetFree"
      [] step = "checkTargetFree" -> "createResolver"
      [] step = "createResolver" -> "createTargetDir"
      [] step = "createTargetDir" -> "expandArchive"
      [] step = "expandArchive" -> "runResolverHook"
      [] step = "runResolverHook" -> "registerInProject"
      [] step = "registerInProject" -> "installDependencies"
      [] OTHER -> "done"

\* FileSystem.deleteDirectory: rmSync(path, {recursive: true, force: true})
TargetAfterDeleteDirectory(stage) == "absent"

\* throw lError at the end of the catch block.
RethrownErrorReplaced(lError) == "RollbackError"

RethrownError(lError) == lError

Proceed(c, step) == [c EXCEPT !.pc = StepAfter(step), !.trace = Append(c.trace, step)]

Throw(c, step, error) ==
    [c EXCEPT !.pc = "failed", !.error = error, !.failedStep = step,
              !.trace = Append(c.trace, step)]

\* A throw inside the try block: control passes to the catch block.
Catch(c, step, lError) ==
    [c EXCEPT !.pc = "rollback", !.caught = lError, !.failedStep = step,
              !.trace = Append(c.trace, step)]

BlueprintNames == {<<"l">>, <<"l", "b">>, <<"L", "b">>}

PackageNameParameters == {<<>>, <<"a">>, <<"A">>, <<"@", "a", "*", "/", "a">>}

CliPackageLists ==
    LET plain == [packageName |-> "p0", hasBlueprints |-> FALSE, blueprints |-> {}]
        one == [packageName |-> "p1", hasBlueprints |-> TRUE, blueprints |-> {<<"l", "b">>}]
        two == [packageName |-> "p2", hasBlueprints |-> TRUE, blueprints |-> {<<"l">>, <<"L", "b">>}]
        three == [packageName |-> "p3", hasBlueprints |-> TRUE, blueprints |-> {<<"l", "b">>}]
    IN {<<>>, <<plain>>, <<one>>, <<two>>, <<plain, one>>, <<one, two>>, <<one, three>>, <<two, three>>}

InitCreate ==
    /\ fs = TreeOf({})
    /\ call = NoCall
    /\ result = <<>>
    /\ walk = NoWalk
    /\ snap = NoSnap
    /\ \E list \in BOOLEAN, bp \in BlueprintNames \cup {<<>>}, pn \in PackageNameParameters,
          packages \in CliPackageLists, known \in BOOLEAN, stage \in {"absent", "present"} :
        cmd = [pc |-> "start", list |-> list, blueprintParameter |-> bp, packageParameter |-> pn,
               packages |-> packages, packageKnown |-> known, target |-> stage,
               targetBefore |-> stage, registry |-> <<>>, blueprintName |-> <<>>,
               packageName |-> <<>>, blueprint |-> "none", error |-> "none",
               caught |-> "none", failedStep |-> "none", trace |-> <<>>,
               fsOps |-> <<>>, projectOps |-> <<>>, output |-> {}]

\* Lines 28-42: --list prints the registry's names and ends the command.
ListBlueprints ==
    /\ UNCHANGED <<fs, call, result, walk, snap>>
    /\ cmd.pc = "start"
    /\ cmd.list
    /\ cmd' = [cmd EXCEPT !.registry = readBlueprintList(cmd.packages),
                          !.output = DOMAIN readBlueprintList(cmd.packages),
                          !.pc = "done"]

\* Lines 28-45.
BeginCreate ==
    /\ UNCHANGED <<fs, call, result, walk, snap>>
    /\ cmd.pc = "start"
    /\ ~cmd.list
    /\ cmd' = [cmd EXCEPT !.registry = readBlueprintList(cmd.packages), !.pc = StepAfter("start")]

\* Lines 47-57: the parameter in lower case, or the answer to the prompt.
ResolveBlueprint ==
    /\ UNCHANGED <<fs, call, result, walk, snap>>
    /\ cmd.pc = "resolveBlueprint"
    /\ \E answer \in {n \in BlueprintNames : BlueprintPromptValid(n)} :
        LET lBlueprintName == IF toLowerCase(cmd.blueprintParameter) = <<>>
                              THEN answer
                              ELSE toLowerCase(cmd.blueprintParameter)
            named == [cmd EXCEPT !.blueprintName = lBlueprintName]
        IN IF lBlueprintName \in DOMAIN cmd.registry
           THEN cmd' = Proceed([named EXCEPT !.blueprint = cmd.registry[lBlueprintName]],
                               "resolveBlueprint")
           ELSE cmd' = Throw(named, "resolveBlueprint", "BlueprintNotFound")

\* Lines 59-69: the parameter, or the answer to the prompt, is tested.
ValidateNames ==
    /\ UNCHANGED <<fs, call, result, walk, snap>>
    /\ cmd.pc = "validateNames"
    /\ \E answer \in {n \in PackageNameParameters : PackageNameValid(n)} :
        LET lNewPackageName == IF cmd.packageParameter = <<>> THEN answer ELSE cmd.packageParameter
            named == [cmd EXCEPT !.packageName = lNewPackageName]
        IN IF PackageNameValid(lNewPackageName)
           THEN cmd' = Proceed(named, "validateNames")
           ELSE cmd' = Throw(named, "validateNames", "InvalidName")

\* Lines 115-123.
CheckTargetFree ==
    /\ UNCHANGED <<fs, call, result, walk, snap>>
    /\ cmd.pc = "checkTargetFree"
    /\ IF cmd.packageKnown
       THEN cmd' = Throw(cmd, "checkTargetFree", "PackageAlreadyExists")
       ELSE IF cmd.target # "absent"
            THEN cmd' = Throw(cmd, "checkTargetFree", "TargetDirectoryExists")
            ELSE cmd' = Proceed(cmd, "checkTargetFree")

\* Lines 125-129: the resolver instance is created before the try block.
CreateResolver ==
    /\ UNCHANGED <<fs, call, result, walk, snap>>
    /\ cmd.pc = "createResolver"
    /\ \/ cmd' = Proceed(cmd, "createResolver")
       \/ cmd' = Throw(cmd, "createResolver", "ResolverLoadError")

\* Line 137.
CreateTargetDir ==
    /\ UNCHANGED <<fs, call, result, walk, snap>>
    /\ cmd.pc = "createTargetDir"
    /\ \/ cmd' = Proceed([cmd EXCEPT !.target = IF cmd.target = "absent" THEN "empty" ELSE cmd.target,
                                     !.fsOps = Append(cmd.fsOps, "createDirectory")],
                          "createTargetDir")
       \/ cmd' = Catch(cmd, "createTargetDir", "CreateDirectoryError")

\* Line 140.
ExpandArchive ==
    /\ UNCHANGED <<fs, call, result, walk, snap>>
    /\ cmd.pc = "expandArchive"
    /\ \/ cmd' = Proceed([cmd EXCEPT !.target = "expanded",
                                     !.fsOps = Append(cmd.fsOps, "decompress")],
                          "expandArchive")
       \/ \E left \in {cmd.target, "partial"} :
            cmd' = Catch([cmd EXCEPT !.target = left,
                                     !.fsOps = Append(cmd.fsOps, "decompress")],
                         "expandArchive", "ArchiveExpansionError")

\* Lines 142-151.
RunResolverHook ==
    /\ UNCHANGED <<fs, call, result, walk, snap>>
    /\ cmd.pc = "runResolverHook"
    /\ \/ cmd' = Proceed([cmd EXCEPT !.target = "rewritten",
                                     !.fsOps = Append(cmd.fsOps, "afterCopy")],
                          "runResolverHook")
       \/ cmd' = Catch([cmd EXCEPT !.fsOps = Append(cmd.fsOps, "afterCopy")],
                       "runResolverHook", "ResolverHookError")

\* Lines 152-160: the catch block. rmSync with force ignores a missing
\* path only; when it throws, its error leaves the catch block instead.
Rollback ==
    /\ UNCHANGED <<fs, call, result, walk, snap>>
    /\ cmd.pc = "rollback"
    /\ \/ cmd' = [cmd EXCEPT !.pc = "failed",
                             !.target = TargetAfterDeleteDirectory(cmd.target),
                             !.fsOps = Append(cmd.fsOps, "deleteDirectory"),
                             !.error = RethrownError(cmd.caught)]
       \/ /\ cmd.target # "absent"
          /\ cmd' = [cmd EXCEPT !.pc = "failed",
                                !.fsOps = Append(cmd.fsOps, "deleteDirectory"),
                                !.error = "DeleteDirectoryError"]

\* Lines 74-88.
RegisterInProject ==
    /\ UNCHANGED <<fs, call, result, walk, snap>>
    /\ cmd.pc = "registerInProject"
    /\ \/ cmd' = Proceed([cmd EXCEPT !.projectOps = cmd.projectOps \o
                              <<"addWorkspace", "writeCliPackageConfiguration", "updatePackageConfiguration">>],
                          "registerInProject")
       \/ cmd' = Throw([cmd EXCEPT !.projectOps = Append(cmd.projectOps, "addWorkspace")],
                       "registerInProject", "ProjectRegistrationError")

\* Lines 90-98.
InstallDependencies ==
    /\ UNCHANGED <<fs, call, result, walk, snap>>
    /\ cmd.pc = "installDependencies"
    /\ \/ cmd' = Proceed(cmd, "installDependencies")
       \/ cmd' = Throw(cmd, "installDependencies", "DependencyInstallError")

NextCreate ==
    \/ ListBlueprints
    \/ BeginCreate
    \/ ResolveBlueprint
    \/ ValidateNames
    \/ CheckTargetFree
    \/ CreateResolver
    \/ CreateTargetDir
    \/ ExpandArchive
    \/ RunResolverHook
    \/ Rollback
    \/ RegisterInProject
    \/ InstallDependencies

SpecCreate == InitCreate /\ [][NextCreate]_vars

CommandEnded == cmd.pc \in {"done", "failed"}

RollbackSteps == {"createTargetDir", "expandArchive", "runResolverHook"}

FailedInsideTry == cmd.pc = "failed" /\ cmd.failedStep \in RollbackSteps

\* C6 as stated: when a step from CreateTargetDir through RunResolverHook
\* fails, the target directory is absent at the end of the command and the
\* caller receives the error of the failing step.
C6_RollbackRemovesTargetAndKeepsError ==
    FailedInsideTry => (cmd.target = "absent" /\ cmd.error = cmd.caught)

\* C6 amended: when such a step fails, then either the caller receives the
\* error of the failing step and the target directory is absent, or the
\* deletion of the target directory has thrown: then the caller receives
\* that error and the directory is left as it was.
C6_RollbackRemovesTargetUnlessDeleteThrows ==
    FailedInsideTry =>
        /\ cmd.fsOps[Len(cmd.fsOps)] = "deleteDirectory"
        /\ \/ cmd.target = "absent" /\ cmd.error = cmd.caught
           \/ cmd.target # "absent" /\ cmd.error = "DeleteDirectoryError"
        /\ cmd.error # "none"

\* The archive expansion failed half-way and the rollback removed the
\* directory.
C6_Witness ==
    /\ FailedInsideTry
    /\ cmd.failedStep = "expandArchive"
    /\ cmd.fsOps = <<"createDirectory", "decompress", "deleteDirectory">>
    /\ cmd.target = "absent"
    /\ cmd.error = "ArchiveExpansionError"

ValidationErrors ==
    {"InvalidName", "BlueprintNotFound", "PackageAlreadyExists", "TargetDirectoryExists"}

\* C7: a command that ends with a validation error has not changed the
\* file system and has not touched the project configuration.
C7_ValidationFailsBeforeAnyMutation ==
    (cmd.pc = "failed" /\ cmd.error \in ValidationErrors) =>
        /\ cmd.fsOps = <<>>
        /\ cmd.projectOps = <<>>
        /\ cmd.target = cmd.targetBefore

\* The last of the validations failed: the target directory is occupied.
C7_Witness ==
    /\ cmd.pc = "failed"
    /\ cmd.error = "TargetDirectoryExists"
    /\ cmd.trace = <<"resolveBlueprint", "validateNames", "checkTargetFree">>

NamedSteps ==
    {"validateNames", "resolveBlueprint", "checkTargetFree", "createTargetDir", "expandArchive",
     "runResolverHook", "registerInProject", "installDependencies"}

NamedTrace == SelectSeq(cmd.trace, LAMBDA step : step \in NamedSteps)

StatedOrder ==
    <<"validateNames", "resolveBlueprint", "checkTargetFree", "createTargetDir", "expandArchive",
      "runResolverHook", "registerInProject", "installDependencies">>

ResolveFirstOrder ==
    <<"resolveBlueprint", "validateNames", "checkTargetFree", "createTargetDir", "expandArchive",
      "runResolverHook", "registerInProject", "installDependencies">>

\* A request whose package name is given and violates the grammar and whose
\* blueprint name is given and is not in the registry.
BadNameAndUnknownBlueprint ==
    /\ cmd.pc \notin {"none", "validate", "validated"}
    /\ ~cmd.list
    /\ cmd.packageParameter # <<>>
    /\ ~HasForm(cmd.packageParameter, IsScopeStarAnywhere)
    /\ cmd.blueprintParameter # <<>>
    /\ toLowerCase(cmd.blueprintParameter) \notin DOMAIN readBlueprintList(cmd.packages)

C8_WitnessWholeRun ==
    /\ cmd.pc = "done"
    /\ ~cmd.list
    /\ cmd.target = "rewritten"

(* ---------------------------------------------------------------------- *)
(* CliPackageBlueprint.afterCopy: placeholder rewriting.                   *)
(* ---------------------------------------------------------------------- *)
TokenPackageIdName ==
    <<"{", "{", "P", "A", "C", "K", "A", "G", "E", "_", "I", "D", "_", "N", "A", "M", "E", "}", "}">>

TokenPackageName ==
    <<"{", "{", "P", "A", "C", "K", "A", "G", "E", "_", "N", "A", "M", "E", "}", "}">>

TokenProjectFolder ==
    <<"{", "{", "P", "R", "O", "J", "E", "C", "T", "_", "F", "O", "L", "D", "E", "R", "}", "}">>

TokenRootProjectFolder ==
    <<"{", "{", "R", "O", "O", "T", "_", "P", "R", "O", "J", "E", "C", "T", "_", "F", "O", "L", "D", "E", "R", "}", "}">>

Tokens == {TokenPackageIdName, TokenPackageName, TokenProjectFolder, TokenRootProjectFolder}

StartsWith(str, pat) == Len(pat) <= Len(str) /\ SubSeq(str, 1, Len(pat)) = pat

Contains(str, pat) == Occurrences(str, pat) # {}

\* String.prototype.replace with a string pattern: the first occurrence only.
replaceFirstOnly(str, pat, rep) ==
    IF Occurrences(str, pat) = {}
    THEN str
    ELSE LET i == CHOOSE k \in Occurrences(str, pat) : \A j \in Occurrences(str, pat) : k <= j
         IN SubSeq(str, 1, i - 1) \o rep \o SubSeq(str, i + Len(pat), Len(str))

\* The grave accent and the apostrophe, each a single character of a string.
chGrave == "GRAVE"
chApostrophe == "APOSTROPHE"

\* The replacement text of one match: in the replacement string "$$" stands
\* for "$", "$&" for the match, "$" with a grave accent for the text before
\* the match and "$" with an apostrophe for the text after it; any other
\* "$" is kept.
RECURSIVE GetSubstitution(_, _, _, _)
GetSubstitution(rep, matched, before, after) ==
    IF rep = <<>>
    THEN <<>>
    ELSE IF Head(rep) = "$" /\ Len(rep) >= 2 /\ rep[2] \in {"$", "&", chGrave, chApostrophe}
         THEN (CASE rep[2] = "$" -> <<"$">>
                 [] rep[2] = "&" -> matched
                 [] rep[2] = chGrave -> before
                 [] OTHER -> after)
              \o GetSubstitution(SubSeq(rep, 3, Len(rep)), matched, before, after)
         ELSE <<Head(rep)>> \o GetSubstitution(Tail(rep), matched, before, after)

\* The part of the result of replaceAll that comes from position i on.
RECURSIVE ReplaceFrom(_, _, _, _)
ReplaceFrom(str, i, pat, rep) ==
    IF i > Len(str)
    THEN <<>>
    ELSE IF StartsWith(SubSeq(str, i, Len(str)), pat)
         THEN GetSubstitution(rep, pat, SubSeq(str, 1, i - 1), SubSeq(str, i + Len(pat), Len(str)))
              \o ReplaceFrom(str, i + Len(pat), pat, rep)
         ELSE <<str[i]>> \o ReplaceFrom(str, i + 1, pat, rep)

\* String.prototype.replaceAll with a string pattern: the occurrences are
\* found from left to right without overlap, the result is not rescanned.
replaceAll(str, pat, rep) == ReplaceFrom(str, 1, pat, rep)

\* Lines 24-28.
ReplacePlaceholders(content, parameter, lPackageFolderName, lRootProjectName) ==
    replaceAll(
        replaceAll(
            replaceAll(
                replaceAll(content, TokenPackageIdName, parameter.packageIdName),
                TokenPackageName, parameter.packageName),
            TokenProjectFolder, lPackageFolderName),
        TokenRootProjectFolder, lRootProjectName)

\* FileSystem.write
write(f, p, content) == [f EXCEPT ![p] = FileNode(content)]

RECURSIVE RewriteFiles(_, _, _, _)
RewriteFiles(f, list, parameter, root) ==
    IF list = <<>>
    THEN f
    ELSE RewriteFiles(
            write(f, Head(list),
                  ReplacePlaceholders(f[Head(list)].content, parameter,
                                      BaseName(parameter.packageDirectory), BaseName(root))),
            Tail(list), parameter, root)

afterCopy(f, parameter, root) ==
    RewriteFiles(f, findFiles(f, parameter.packageDirectory, DefaultOptions), parameter, root)

(* ---------------------------------------------------------------------- *)
(* Rewrite specification: afterCopy on a package directory, twice.         *)
(* ---------------------------------------------------------------------- *)
ContentPieces ==
    {<<"x">>, <<"}", "}">>,
     <<"{", "{", "P", "A", "C", "K", "A", "G", "E", "_">>,
     TokenPackageIdName, TokenPackageName, TokenProjectFolder, TokenRootProjectFolder}

RECURSIVE Concat(_)
Concat(pieces) == IF pieces = <<>> THEN <<>> ELSE Head(pieces) \o Concat(Tail(pieces))

Contents == {Concat(q) : q \in UNION {[1..k -> ContentPieces] : k \in 0..MaxPieces}}

ReplacementValues ==
    {<<"x">>, <<"a", "-", "b">>, <<>>, <<"N", "A", "M", "E">>, <<"$", chApostrophe>>, TokenPackageName}

PackageDirectory == <<nA>>

BlueprintParameters ==
    [packageName : ReplacementValues, packageIdName : ReplacementValues,
     packageDirectory : {PackageDirectory}]

\* The root directory of the project; its last segment is empty when the
\* project lies in the filesystem root.
ProjectRoots == {RootPath} \cup {<<v>> : v \in ReplacementValues \ {<<>>}}

\* The calls explored: at most one of the three free values is not "x".
AfterCopyInputs ==
    {q \in BlueprintParameters \X ProjectRoots :
        Cardinality({i \in 1..3 :
            <<q[1].packageName, q[1].packageIdName, BaseName(q[2])>>[i] # <<"x">>}) <= 1}

\* The package directory with one file of the chosen content, a nested
\* file that holds the same token twice, and a file outside of it.
PackageTree(content) ==
    [p \in {RootPath, <<nA>>, <<nA, nAB>>, <<nA, nB>>, <<nA, nAB, nA>>, <<nB>>} |->
        IF p = <<nA, nB>> THEN FileNode(content)
        ELSE IF p = <<nA, nAB, nA>> THEN FileNode(TokenPackageName \o <<"x">> \o TokenPackageName)
        ELSE IF p = <<nB>> THEN FileNode(TokenPackageName)
        ELSE DirNode]

InitRewrite ==
    /\ fs \in {PackageTree(c) : c \in Contents}
    /\ call = NoCall
    /\ result = <<>>
    /\ walk = NoWalk
    /\ snap = NoSnap
    /\ cmd = NoCommand

AfterCopyCall ==
    /\ call = NoCall
    /\ \E input \in AfterCopyInputs :
        /\ call' = [op |-> "afterCopy", parameter |-> input[1], projectRootDirectory |-> input[2],
                    runs |-> 1]
        /\ fs' = afterCopy(fs, input[1], input[2])
        /\ snap' = [taken |-> TRUE, before |-> fs, afterFirst |-> afterCopy(fs, input[1], input[2])]
        /\ UNCHANGED <<result, walk, cmd>>

AfterCopyAgain ==
    /\ call.op = "afterCopy"
    /\ call.runs = 1
    /\ call' = [call EXCEPT !.runs = 2]
    /\ fs' = afterCopy(fs, call.parameter, call.projectRootDirectory)
    /\ UNCHANGED <<result, walk, snap, cmd>>

NextRewrite == AfterCopyCall \/ AfterCopyAgain

SpecRewrite == InitRewrite /\ [][NextRewrite]_vars

TokenValues ==
    {call.parameter.packageIdName, call.parameter.packageName,
     BaseName(call.parameter.packageDirectory), BaseName(call.projectRootDirectory)}

HasToken(content) == \E t \in Tokens : Contains(content, t)

\* A value holds a token marker when it holds an opening or a closing pair
\* of braces.
HasMarker(v) == Contains(v, <<"{", "{">>) \/ Contains(v, <<"}", "}">>)

TokenCharacters == UNION {SeqToSet(t) : t \in Tokens}

\* A value that cannot become part of a token: it is not empty and none of
\* its characters occurs in a token.
SharesNoTokenCharacter(v) == v # <<>> /\ SeqToSet(v) \cap TokenCharacters = {}

\* A value that is inserted as it is and cannot become part of a token.
IsInertValue(v) == SharesNoTokenCharacter(v) /\ "$" \notin SeqToSet(v)

TokenFreeFilesUntouched ==
    \A p \in FilesOf(snap.before) :
        ~HasToken(snap.before[p].content) => fs[p] = snap.before[p]

\* C10 as stated: when no replacement value holds a token marker, rewriting
\* twice gives what rewriting once gives; a file without any of the four
\* tokens keeps its content.
C10_RewriteTwiceEqualsOnceWithoutMarkers ==
    call.op = "afterCopy" =>
        /\ (call.runs = 2 /\ \A v \in TokenValues : ~HasMarker(v)) => fs = snap.afterFirst
        /\ TokenFreeFilesUntouched

\* C10 amended: when every replacement value is non-empty, holds no "$" and
\* shares no character with the tokens, rewriting twice gives what rewriting
\* once gives; a file without any of the four tokens keeps its content.
C10_RewriteTwiceEqualsOnceWithInertValues ==
    call.op = "afterCopy" =>
        /\ (call.runs = 2 /\ \A v \in TokenValues : IsInertValue(v)) => fs = snap.afterFirst
        /\ TokenFreeFilesUntouched

\* A second rewriting with inert values after a first one that replaced a
\* token in the chosen file and left a token-free file alone.
C10_Witness ==
    /\ call.op = "afterCopy"
    /\ call.runs = 2
    /\ \A v \in TokenValues : IsInertValue(v)
    /\ Contains(snap.before[<<nA, nB>>].content, TokenRootProjectFolder)
    /\ snap.afterFirst[<<nA, nB>>] # snap.before[<<nA, nB>>]
    /\ snap.afterFirst[<<nA, nAB, nA>>].content = <<"x", "x", "x">>

C10_WitnessTokenFree ==
    /\ call.op = "afterCopy"
    /\ call.runs = 1
    /\ snap.before[<<nA, nB>>].content = <<"x", "}", "}">>
    /\ fs[<<nA, nB>>] = snap.before[<<nA, nB>>]

(* ---------------------------------------------------------------------- *)
(* Properties of findFiles.                                                *)
(* ---------------------------------------------------------------------- *)
NoDuplicates(q) == \A i \in 1..Len(q), j \in 1..Len(q) : q[i] = q[j] => i = j

\* The regular files reachable from dir by descending into subdirectories.
FilesBelow(f, dir) == {p \in DOMAIN f : IsFile(f, p) /\ IsProperPrefix(dir, p)}

\* The names of the subdirectories of start on the way down to file p.
SubdirectoryNames(start, p) == {p[i] : i \in (Len(start) + 1)..(Len(p) - 1)}

\* The extension of a file name as the specification defines it: the part
\* after the last dot, empty when there is none.
ExtensionOf(n) == IF DotPositions(n) = {} THEN <<>> ELSE SubSeq(n, LastDot(n) + 1, Len(n))

IsFindCall == call.op = "findFiles"

UnfilteredForwardCall ==
    /\ IsFindCall
    /\ call.options.direction = "forward"
    /\ call.options.depth = DefaultDepth
    /\ call.options.include = EmptyFilter
    /\ call.options.exclude = EmptyFilter

\* C1: with all six include/exclude sets empty and the default depth, a
\* forward findFiles returns exactly the regular files below the start
\* directory, each of them once.
C1_UnfilteredForwardSearchIsExact ==
    UnfilteredForwardCall =>
        /\ SeqToSet(result) = FilesBelow(fs, call.start)
        /\ NoDuplicates(result)

C1_Witness ==
    /\ UnfilteredForwardCall
    /\ Len(result) >= 2
    /\ \E i \in 1..Len(result) : Len(result[i]) >= Len(call.start) + 3

\* C2: exclusion overrides inclusion: a file name, extension or directory
\* name that is in an include set and in the corresponding exclude set is
\* never the name or extension of a returned file, nor the name of a
\* subdirectory above a returned file.
C2_ExclusionOverridesInclusion ==
    IsFindCall =>
        \A i \in 1..Len(result) :
            LET r == result[i]
                inc == call.options.include
                exc == call.options.exclude
            IN /\ BaseName(r) \notin (inc.fileNames \cap exc.fileNames)
               /\ ExtensionOf(BaseName(r)) \notin (inc.extensions \cap exc.extensions)
               /\ SubdirectoryNames(call.start, r) \cap (inc.directories \cap exc.directories) = {}

DepthZeroForwardCall ==
    /\ IsFindCall
    /\ call.options.direction = "forward"
    /\ call.options.depth = 0

\* C3: a forward findFiles with depth 0 returns only files that are direct
\* children of the start directory, whatever the filters are.
C3_DepthZeroReturnsDirectFilesOnly ==
    DepthZeroForwardCall =>
        \A i \in 1..Len(result) : directoryOfFile(result[i]) = call.start

C3_Witness ==
    /\ DepthZeroForwardCall
    /\ result # <<>>
    /\ \E p \in FilesBelow(fs, call.start) : Len(p) > Len(call.start) + 1

\* The four file checks with the extension as the specification defines it.
FileAcceptedAsStated(o, n) ==
    /\ ~(o.include.fileNames # {} /\ n \notin o.include.fileNames)
    /\ ~(o.include.extensions # {} /\ ExtensionOf(n) \notin o.include.extensions)
    /\ ~(o.exclude.fileNames # {} /\ n \in o.exclude.fileNames)
    /\ ~(o.exclude.extensions # {} /\ ExtensionOf(n) \in o.exclude.extensions)

DirectFiles(f, dir) == {p \in FilesOf(f) : p # RootPath /\ directoryOfFile(p) = dir}

\* C11: the extension used for filtering is the part of the file name after
\* its last dot and is empty when the name has no dot, so a file without a
\* dot is never matched by a non-empty entry of the extension sets: a file
\* of the start directory is returned exactly when it passes the four
\* checks made with that extension.
C11_ExtensionIsEmptyWithoutDot ==
    IsFindCall =>
        \A p \in DirectFiles(fs, call.start) :
            (p \in SeqToSet(result)) <=> FileAcceptedAsStated(call.options, BaseName(p))

\* C12: in a forward search no returned file lies below a subdirectory
\* whose name is in exclude.directories, or is missing from a non-empty
\* include.directories, whether the name holds a dot or not.
C12_FilteredDirectoriesAreNotDescended ==
    (IsFindCall /\ call.options.direction = "forward") =>
        \A i \in 1..Len(result) :
            \A d \in SubdirectoryNames(call.start, result[i]) :
                /\ d \notin call.options.exclude.directories
                /\ call.options.include.directories # {} => d \in call.options.include.directories

\* The files that a copyDirectory run has created or overwritten.
WrittenFiles(before, after) ==
    {p \in FilesOf(after) : p \notin DOMAIN before \/ after[p] # before[p]}

\* The path of file q relative to the directory dir above it.
RelativeTo(dir, q) == SubSeq(q, Len(dir) + 1, Len(q))

\* C13: whatever the options are, every file that copyDirectory creates or
\* overwrites is the copy of a file below the source directory, placed at
\* the destination directory joined with that file's path relative to the
\* source directory, hence inside the destination directory.
C13_CopyWritesSourceFilesBelowDestination ==
    (call.op = "copyDirectory" /\ call.runs = 1) =>
        \A p \in WrittenFiles(snap.before, fs) :
            /\ IsProperPrefix(call.destination, p)
            /\ \E q \in FilesBelow(snap.before, call.source) :
                  p = call.destination \o RelativeTo(call.source, q)

\* A create request whose blueprint_name is one of the registry's names and
\* whose blueprint has been looked up.
RequestsListedBlueprint ==
    /\ ~cmd.list
    /\ cmd.blueprintParameter # <<>>
    /\ cmd.blueprintParameter \in DOMAIN readBlueprintList(cmd.packages)
    /\ "resolveBlueprint" \in SeqToSet(cmd.trace)

\* C14: a create request that passes a name of the registry built by
\* readBlueprintList as blueprint_name reaches the blueprint registered
\* under that name and never fails with the blueprint-not-found error,
\* whatever letter case the declared name has.
C14_ListedBlueprintIsResolved ==
    RequestsListedBlueprint =>
        /\ cmd.error # "BlueprintNotFound"
        /\ cmd.blueprint = readBlueprintList(cmd.packages)[cmd.blueprintParameter]

====
